---- MODULE Spec2Model ----
(***************************************************************************)
(* Food-system node-link diagram (src/script-v2.js): the disclosure        *)
(* ("food journey") state machine, the focus view, the category / non-core *)
(* filters and the view modes, as a state machine over the rendered state  *)
(* of every node and link.                                                 *)
(*                                                                         *)
(* Styles: an element's inline opacity is a number in thousandths          *)
(* (0, 300, 600, 950, 1000); the class "hidden" overrides it through the   *)
(* stylesheet rule  .node-group.hidden { opacity: 0 !important }.          *)
(*                                                                         *)
(* Transitions: a handler runs to completion and leaves the transitions it *)
(* scheduled in pend, in creation order.  Settle runs them the way the     *)
(* rendering library does: on one element, a transition created later      *)
(* supersedes the earlier one after the earlier one has had a single       *)
(* frame; in that frame a non-numeric style (pointer-events) jumps to its  *)
(* target and a numeric one (opacity) moves a hair towards it.  User       *)
(* events are taken in settled states (pend empty).                        *)
(***************************************************************************)
EXTENDS Integers, Sequences, FiniteSets, TLC

\* number of datasets explored
MaxData == 10

\* number of user events in a session
MaxEvents == 3

\* window.innerWidth / window.innerHeight at page initialisation
width == 1200
height == 800

\* JavaScript null for a node reference or a coordinate
Null == 0 - 1000000

N0(id, group, regen) ==
  [id |-> id, group |-> group, label |-> id, isRegenModified |-> regen]
\* what the field examples of a link holds: nothing (the field is absent),
\* an array, a non-empty string, the empty string
ExamplesValues == {"undefined", "array", "string", "emptyString"}

L0(s, t, ty) ==
  [source |-> s, target |-> t, type |-> ty, isRegenHighlight |-> FALSE,
   examples |-> "undefined"]
L1(s, t, ty) ==
  [source |-> s, target |-> t, type |-> ty, isRegenHighlight |-> TRUE,
   examples |-> "undefined"]

\* a link of data.json that carries the field examples
WithExamples(l, v) == [l EXCEPT !.examples = v]

\* data.json: the payloads explored.  1 and 2 hold the same graph with the
\* links listed in opposite orders; 3 carries all five first-stage nodes;
\* 4 joins one pair of nodes by links of both directions and of several
\* types; 5 carries one id twice; 6 has a link to an id no node carries;
\* 7 is the single node 'environment' without links; 8 carries two nodes
\* of groups index.html has no checkbox for and one node without group;
\* the first link of 1 carries an array of examples and the second link of
\* 2 a string; the only link of 9 carries examples: "" and that of 10
\* examples: "a string"; 'production' is regen-modified in 9.
DataSet(k) ==
  CASE k = 1 ->
         [nodes |-> << N0("environment", "core_flow", FALSE),
                       N0("production", "core_flow", FALSE),
                       N0("packhouses", "core_flow", FALSE),
                       N0("food_waste", "subsystem", FALSE),
                       N0("climate", "factor", TRUE) >>,
          links |-> << WithExamples(L0("environment", "production", "flow"),
                                    "array"),
                       L0("production", "packhouses", "flow"),
                       L0("packhouses", "food_waste", "waste"),
                       L1("climate", "production", "influence") >>]
    [] k = 2 ->
         [nodes |-> << N0("environment", "core_flow", FALSE),
                       N0("production", "core_flow", FALSE),
                       N0("packhouses", "core_flow", FALSE),
                       N0("food_waste", "subsystem", FALSE),
                       N0("climate", "factor", TRUE) >>,
          links |-> << L1("climate", "production", "influence"),
                       WithExamples(L0("packhouses", "food_waste", "waste"),
                                    "string"),
                       L0("production", "packhouses", "flow"),
                       L0("environment", "production", "flow") >>]
    [] k = 3 ->
         [nodes |-> << N0("environment", "factor", FALSE),
                       N0("inputs", "core_flow", FALSE),
                       N0("production", "core_flow", FALSE),
                       N0("fertilizer_industry", "subsystem", FALSE),
                       N0("pest_management", "subsystem", FALSE),
                       N0("distribution", "core_flow", FALSE),
                       N0("wholesalers", "core_flow", FALSE) >>,
          links |-> << L0("distribution", "wholesalers", "flow"),
                       L0("environment", "production", "flow"),
                       L0("inputs", "production", "flow"),
                       L0("fertilizer_industry", "inputs", "influence"),
                       L0("pest_management", "production", "influence"),
                       L0("production", "distribution", "flow") >>]
    [] k = 4 ->
         [nodes |-> << N0("environment", "core_flow", FALSE),
                       N0("production", "core_flow", FALSE),
                       N0("food_waste", "subsystem", FALSE),
                       N0("food_loss", "subsystem", FALSE),
                       N0("climate", "factor", FALSE) >>,
          links |-> << L0("environment", "production", "flow"),
                       L0("production", "environment", "flow"),
                       L0("environment", "production", "influence"),
                       L0("production", "food_waste", "waste"),
                       L0("food_waste", "environment", "problem"),
                       L0("food_loss", "environment", "recycle"),
                       L0("climate", "environment", "influence") >>]
    [] k = 5 ->
         [nodes |-> << N0("environment", "core_flow", FALSE),
                       N0("production", "core_flow", FALSE),
                       N0("production", "subsystem", FALSE),
                       N0("packhouses", "core_flow", FALSE) >>,
          links |-> << L0("environment", "production", "flow"),
                       L0("production", "packhouses", "flow") >>]
    [] k = 6 ->
         [nodes |-> << N0("environment", "core_flow", FALSE),
                       N0("production", "core_flow", FALSE) >>,
          links |-> << L0("environment", "production", "flow"),
                       L0("production", "ghost", "flow") >>]
    [] k = 7 ->
         [nodes |-> << N0("environment", "factor", FALSE) >>,
          links |-> << >>]
    [] k = 8 ->
         [nodes |-> << N0("environment", "core_flow", FALSE),
                       N0("production", "core_flow", FALSE),
                       N0("marae_kai", "marae", FALSE),
                       N0("hapu_garden", "iwi", FALSE),
                       N0("orphan", "", FALSE) >>,
          links |-> << L0("environment", "production", "flow"),
                       L0("production", "marae_kai", "flow"),
                       L0("production", "hapu_garden", "flow"),
                       L0("production", "orphan", "influence") >>]
    [] k = 9 ->
         [nodes |-> << N0("environment", "core_flow", FALSE),
                       N0("production", "core_flow", TRUE) >>,
          links |-> << WithExamples(L0("environment", "production", "flow"),
                                    "emptyString") >>]
    [] k = 10 ->
         [nodes |-> << N0("environment", "core_flow", FALSE),
                       N0("production", "core_flow", FALSE) >>,
          links |-> << WithExamples(L0("environment", "production", "flow"),
                                    "string") >>]
    [] OTHER ->
         [nodes |-> << N0("environment", "factor", FALSE),
                       N0("production", "core_flow", TRUE),
                       N0("consumption", "core_flow", FALSE),
                       N0("food_waste", "subsystem", FALSE) >>,
          links |-> << L0("environment", "production", "flow"),
                       L0("production", "consumption", "flow"),
                       L0("consumption", "food_waste", "waste"),
                       L0("food_waste", "environment", "problem") >>]

VARIABLES
  response,            \* what fetch('data.json') produced
  loadStatus,          \* "ready", or "error" when the catch handler ran
  errorMessage,        \* the text put in the container by the catch handler
  container,           \* classes / ids of the children of #d3-container
  initializeVisualizationRan,
  nodes,               \* the nodes of the loaded payload
  links,               \* its links, the ends resolved to node indices
  hidden,              \* node index -> the element carries class "hidden"
  nodeOp,              \* node index -> inline opacity
  nodePE,              \* node index -> inline pointer-events
  linkOp,              \* link index -> inline opacity
  isJourneyExpanded,
  expandedNodes,       \* set of node ids
  currentView,
  currentlySelectedNodeData,     \* node index or Null
  currentlySelectedNodeElement,  \* node index or Null
  selectedClass,       \* node indices carrying class "selected"
  fx, fy,              \* node index -> pin coordinate or Null
  x, y,                \* node index -> node.x, node.y
  simulationRunning,   \* the timer of the force simulation is running
  alphaTarget,         \* simulation.alphaTarget() in thousandths
  svgSize,             \* the width and height attributes of the svg
  dragging,            \* the drag gesture in progress or NoDrag
  mindMap,             \* keys of the rendered mind-map connectors
  animated,            \* the idle link animation is running
  catChecked,          \* category -> its checkbox is checked
  toggleAll,           \* [checked, indeterminate] of the toggle-all box
  noncoreChecked,
  continueButtons,     \* number of .continue-journey-btn elements
  stageShown,          \* the stage the path guide announces: 0 before the
                       \* journey, 1..6, 7 for the full system
  pend,                \* transitions scheduled and not yet run
  events,              \* number of user events handled
  lastEvent,           \* the handler that ran last
  onlyFilters,         \* every event so far was a change of a filter checkbox
  roundTrip            \* a category unchecked, then checked again, and what
                       \* was visible before

vars == << x, y, simulationRunning, alphaTarget, svgSize, dragging, response, loadStatus, errorMessage, container,
           initializeVisualizationRan, nodes, links, hidden, nodeOp, nodePE, linkOp, isJourneyExpanded,
           expandedNodes, currentView, currentlySelectedNodeData,
           currentlySelectedNodeElement, selectedClass, fx, fy, mindMap,
           animated, catChecked, toggleAll, noncoreChecked, continueButtons,
           stageShown, pend, events, lastEvent, onlyFilters, roundTrip >>

----------------------------------------------------------------------------
(* The loaded graph *)

NodeIx == 1 .. Len(nodes)

\* new Map(ns.map(node => [node.id, node])).get(id): the last node
\* carrying the id, 0 when there is none
nodeMap(ns, id) ==
  LET S == { i \in 1 .. Len(ns) : ns[i].id = id }
  IN  IF S = {} THEN 0 ELSE CHOOSE i \in S : \A j \in S : j <= i

\* lines 54-63: data.links with both ends replaced by node references
ResolveLinks(d) ==
  [ k \in 1 .. Len(d.links) |->
      [d.links[k] EXCEPT !.source = nodeMap(d.nodes, d.links[k].source),
                         !.target = nodeMap(d.nodes, d.links[k].target)] ]

LinkIx == 1 .. Len(links)

\* d3.select(`.node-group[data-id="${id}"]`): the first element with the id
NodeElement(id) ==
  LET S == { i \in NodeIx : nodes[i].id = id }
  IN  IF S = {} THEN 0 ELSE CHOOSE i \in S : \A j \in S : i <= j

\* the data-group attribute of a node element
DataGroup(n) == nodes[n].group

\* class "non-core-node" of a node element
NonCore(n) == nodes[n].group # "core_flow"

\* the category checkboxes of index.html
HtmlCategories ==
  << "core_flow", "subsystem", "community", "policy",
     "health", "economic", "factor", "monitoring" >>

SeqRange(s) == { s[i] : i \in 1 .. Len(s) }

\* setupCategoryToggles: nodeGroups, the groups present in the data
nodeGroups == { nodes[n].group : n \in NodeIx }

\* every .category-checkbox after setupCategoryToggles added the missing ones
allCategoryCheckboxes == SeqRange(HtmlCategories) \cup nodeGroups

\* the groups setupCategoryToggles adds a checkbox for, in the order
\* nodeGroups.forEach meets them
RECURSIVE AddedFrom(_, _)
AddedFrom(i, acc) ==
  IF i > Len(nodes) THEN acc
  ELSE IF nodes[i].group \in (SeqRange(HtmlCategories) \cup SeqRange(acc))
       THEN AddedFrom(i + 1, acc)
       ELSE AddedFrom(i + 1, Append(acc, nodes[i].group))

\* document.querySelectorAll('.category-checkbox') in document order
CheckboxSeq == HtmlCategories \o AddedFrom(1, << >>)

----------------------------------------------------------------------------
(* Layout.  Coordinates are whole pixels.  Adrift stands for a position    *)
(* the code does not fix: one the force simulation has moved a node to, or *)
(* one drawn with Math.random().                                           *)

Adrift == 0 - 999999

\* v * num / den
Frac(v, num, den) == (v * num) \div den

\* 1000 * Math.cos(i * 2 * Math.PI / n) and 1000 * Math.sin(...), for the
\* category sizes of the payloads explored
Cos1000(i, n) ==
  CASE n = 1 -> 1000
    [] n = 2 -> IF i = 0 THEN 1000 ELSE 0 - 1000
    [] n = 3 -> IF i = 0 THEN 1000 ELSE 0 - 500
    [] n = 4 -> << 1000, 0, 0 - 1000, 0 >>[i + 1]
    [] n = 5 -> << 1000, 309, 0 - 809, 0 - 809, 309 >>[i + 1]
Sin1000(i, n) ==
  CASE n = 1 -> 0
    [] n = 2 -> 0
    [] n = 3 -> << 0, 866, 0 - 866 >>[i + 1]
    [] n = 4 -> << 0, 1000, 0, 0 - 1000 >>[i + 1]
    [] n = 5 -> << 0, 951, 588, 0 - 588, 0 - 951 >>[i + 1]

\* categoryPositions of positionNodes, lines 140-148, in tenths of the
\* width and of the height; 5, 5 for a category it does not list
categoryPositions(category) ==
  CASE category = "core_flow" -> [x |-> 5, y |-> 5]
    [] category = "subsystem" -> [x |-> 3, y |-> 3]
    [] category = "community" -> [x |-> 7, y |-> 7]
    [] category = "policy" -> [x |-> 2, y |-> 2]
    [] category = "health" -> [x |-> 8, y |-> 2]
    [] category = "factor" -> [x |-> 2, y |-> 8]
    [] category = "economic" -> [x |-> 8, y |-> 8]
    [] OTHER -> [x |-> 5, y |-> 5]

\* the nodes of ns before index n that carry the group of ns[n]
RankInGroup(ns, n) ==
  Cardinality({ m \in 1 .. (n - 1) : ns[m].group = ns[n].group })
SizeOfGroup(ns, n) ==
  Cardinality({ m \in 1 .. Len(ns) : ns[m].group = ns[n].group })

\* positionNodes(nodes, width, height), lines 138-171: every node on a
\* circle around the centre of its category
positionNodes(ns, w, h) ==
  [ n \in 1 .. Len(ns) |->
      LET center == categoryPositions(ns[n].group)
          radius == Frac(IF w < h THEN w ELSE h, 15, 100)
          i == RankInGroup(ns, n)
          count == SizeOfGroup(ns, n)
      IN  [x |-> Frac(w, center.x, 10) + Frac(radius * Cos1000(i, count), 1, 1000),
           y |-> Frac(h, center.y, 10) + Frac(radius * Sin1000(i, count), 1, 1000)] ]

\* the first node carrying one of the ids, 0 when there is none:
\* nodes.find(n => ...)
FirstWith(ids) ==
  LET S == { i \in NodeIx : nodes[i].id \in ids }
  IN  IF S = {} THEN 0 ELSE CHOOSE i \in S : \A j \in S : i <= j

\* setInitialPositions, lines 696-784: the place of an id on the flow
\* line, as tenths of stagePadding from startX and pixels from flowY
FlowPlace(id) ==
  CASE id = "environment" -> [col |-> 0, dy |-> 0]
    [] id = "production" -> [col |-> 10, dy |-> 0]
    [] id = "packhouses" -> [col |-> 20, dy |-> 0]
    [] id = "processing" -> [col |-> 30, dy |-> 0]
    [] id = "distribution" -> [col |-> 40, dy |-> 0]
    [] id = "wholesalers" -> [col |-> 50, dy |-> 0]
    [] id = "supermarkets" -> [col |-> 60, dy |-> 0]
    [] id = "grocers" -> [col |-> 60, dy |-> 80]
    [] id = "consumption" -> [col |-> 80, dy |-> 0]
    [] id = "inputs" -> [col |-> 10, dy |-> 0 - 80]
    [] id = "imports" -> [col |-> 40, dy |-> 0 - 80]
    [] id = "exports" -> [col |-> 40, dy |-> 80]
    [] id = "fertilizer_industry" -> [col |-> 5, dy |-> 80]
    [] id = "pest_management" -> [col |-> 15, dy |-> 80]
    [] id \in {"restaurants", "food_service"} -> [col |-> 65, dy |-> 160]
    [] id = "food_rescue" -> [col |-> 55, dy |-> 0 - 80]
    [] id = "school_food_programs" -> [col |-> 55, dy |-> 80]
    [] id \in {"markets", "weekend_markets"} -> [col |-> 60, dy |-> 0 - 80]
    [] OTHER -> [col |-> Null, dy |-> 0]

\* the node is the one nodes.find() returns for its place on the flow line
OnFlowLine(n) ==
  /\ FlowPlace(nodes[n].id).col # Null
  /\ n = FirstWith(
           IF nodes[n].id \in {"restaurants", "food_service"}
           THEN {"restaurants", "food_service"}
           ELSE IF nodes[n].id \in {"markets", "weekend_markets"}
           THEN {"markets", "weekend_markets"}
           ELSE {nodes[n].id})

\* lines 794-806: the columns of the waste-related ids on the bottom row
WasteColumn(id) ==
  CASE id = "food_loss" -> 2
    [] id \in {"waste", "waste/recovery"} -> 5
    [] id = "food_waste" -> 7
    [] OTHER -> Null

\* lines 785-792: the factor nodes before n
FactorRank(n) ==
  Cardinality({ m \in 1 .. (n - 1) : nodes[m].group = "factor" })

\* the placement of setInitialPositions(), lines 676-840, for a viewport
\* of width w and height h
InitialLayout(w, h) ==
  LET flowY == Frac(h, 50, 100)
      topY == Frac(h, 15, 100)
      bottomY == Frac(h, 85, 100)
      secondaryBottomY == Frac(h, 70, 100)
      margin == Frac(w, 10, 100)
      usableWidth == w - (margin * 2)
      stagePadding == usableWidth \div 8
      startX == margin
      factorXPositions == << 10, 30, 50, 70, 90 >>
  IN  [ n \in NodeIx |->
          IF WasteColumn(nodes[n].id) # Null
          THEN [x |-> startX + stagePadding * WasteColumn(nodes[n].id),
                y |-> bottomY]
          ELSE IF nodes[n].group = "factor" /\ FactorRank(n) < 5
          THEN [x |-> Frac(w, factorXPositions[FactorRank(n) + 1], 100),
                y |-> topY]
          ELSE IF OnFlowLine(n)
          THEN [x |-> startX + Frac(stagePadding, FlowPlace(nodes[n].id).col, 10),
                y |-> flowY + FlowPlace(nodes[n].id).dy]
          ELSE IF nodes[n].group = "community"
          THEN [x |-> Frac(w, 75, 100), y |-> Adrift]
          ELSE IF nodes[n].group = "health"
          THEN [x |-> Frac(w, 80, 100), y |-> secondaryBottomY]
          ELSE IF nodes[n].group = "economic"
          THEN [x |-> Frac(w, 20, 100), y |-> secondaryBottomY]
          ELSE [x |-> Adrift, y |-> Adrift] ]

\* setInitialPositions(), lines 676-840: it reads the width and height of
\* the page initialisation, lines 35-36
setInitialPositions == InitialLayout(width, height)

\* expandFoodJourney, lines 1343-1378: the places of the first stage, in
\* hundredths of usableWidth from margin and pixels from flowY
FirstStagePlace(id) ==
  CASE id = "environment" -> [col |-> 0, dy |-> 0]
    [] id = "production" -> [col |-> 20, dy |-> 0]
    [] id = "inputs" -> [col |-> 20, dy |-> 0 - 80]
    [] id = "fertilizer_industry" -> [col |-> 10, dy |-> 80]
    [] id = "pest_management" -> [col |-> 30, dy |-> 80]
    [] OTHER -> [col |-> Null, dy |-> 0]

\* the positions expandFoodJourney leaves, from the positions pos
FirstStagePositions(pos, expanded) ==
  LET flowY == Frac(height, 50, 100)
      margin == Frac(width, 10, 100)
      usableWidth == width - (margin * 2)
  IN  [ n \in NodeIx |->
          IF /\ FirstStagePlace(nodes[n].id).col # Null
             /\ n = NodeElement(nodes[n].id)
             /\ nodes[n].id \in expanded
          THEN [x |-> margin + Frac(usableWidth, FirstStagePlace(nodes[n].id).col, 100),
                y |-> flowY + FirstStagePlace(nodes[n].id).dy]
          ELSE pos[n] ]

\* journeyStages[stage - 1].positions[id], lines 1456-1574, in thousandths
\* of usableWidth from margin and pixels from flowY
StagePlace(stage, id) ==
  LET at(c, d) == [col |-> c, dy |-> d]
      none == [col |-> Null, dy |-> 0]
      cols ==
        CASE stage = 1 -> << 200, 100, 300, Null, Null, Null, Null, Null, Null, Null >>
          [] stage = 2 -> << 150, 70, 220, 300, 450, Null, Null, Null, Null, Null >>
          [] stage = 3 -> << 130, 60, 200, 260, 390, 520, Null, Null, Null, Null >>
          [] stage = 4 -> << 120, 60, 180, 240, 360, 480, 600, 720, Null, Null >>
          [] stage = 5 -> << 110, 55, 165, 220, 330, 440, 550, 660, 770, Null >>
          [] stage = 6 -> << 100, 50, 150, 200, 300, 400, 500, 600, 700, 900 >>
          [] OTHER -> << Null, Null, Null, Null, Null, Null, Null, Null, Null, Null >>
      pick(k, d) == IF cols[k] = Null THEN none ELSE at(cols[k], d)
  IN  CASE id = "environment" -> IF stage \in 1 .. 6 THEN at(0, 0) ELSE none
        [] id = "production" -> pick(1, 0)
        [] id = "inputs" -> pick(1, 0 - 80)
        [] id = "fertilizer_industry" -> pick(2, 80)
        [] id = "pest_management" -> pick(3, 80)
        [] id = "packhouses" -> pick(4, 0)
        [] id = "processing" -> pick(5, 0)
        [] id = "distribution" -> pick(6, 0)
        [] id = "imports" -> pick(6, 0 - 80)
        [] id = "exports" -> pick(6, 80)
        [] id = "wholesalers" -> pick(7, 0)
        [] id = "food_rescue" -> pick(8, 0 - 80)
        [] id = "school_food_programs" -> pick(8, 80)
        [] id = "supermarkets" -> pick(9, 0)
        [] id = "grocers" -> pick(9, 80)
        [] id = "markets" -> pick(9, 0 - 80)
        [] id \in {"food_service", "restaurants"} -> pick(9, 160)
        [] id = "consumption" -> pick(10, 0)
        [] OTHER -> none

\* findNodeConnections(nodeId), lines 1686-1699
findNodeConnections(nodeId) ==
  { nodes[links[l].target].id :
      l \in { k \in LinkIx : nodes[links[k].source].id = nodeId } }
  \cup { nodes[links[l].source].id :
           l \in { k \in LinkIx : nodes[links[k].target].id = nodeId } }

\* lines 1620-1651: the positions continueFoodJourney leaves for a stage,
\* from the positions pos
StagePositions(pos, stage, expanded) ==
  IF stage = 7 THEN setInitialPositions
  ELSE
  LET flowY == Frac(height, 50, 100)
      margin == Frac(width, 5, 100)
      usableWidth == width - (margin * 2)
  IN  [ n \in NodeIx |->
          IF StagePlace(stage, nodes[n].id).col # Null
          THEN [x |-> margin + Frac(usableWidth, StagePlace(stage, nodes[n].id).col, 1000),
                y |-> flowY + StagePlace(stage, nodes[n].id).dy]
          ELSE IF /\ nodes[n].id \in expanded
                  /\ \E connId \in findNodeConnections(nodes[n].id) :
                       StagePlace(stage, connId).col # Null
          THEN [x |-> Adrift, y |-> Adrift]
          ELSE pos[n] ]

\* the x and the y coordinates of positions
Xs(pos) == [n \in NodeIx |-> pos[n].x]
Ys(pos) == [n \in NodeIx |-> pos[n].y]

\* one tick of the force simulation: a pinned node sits at its pin, the
\* forces move every other node
TickPositions(pos, pinX, pinY) ==
  [ n \in NodeIx |->
      [x |-> IF pinX[n] # Null THEN pinX[n] ELSE Adrift,
       y |-> IF pinY[n] # Null THEN pinY[n] ELSE Adrift] ]

----------------------------------------------------------------------------
(* Transitions *)

NoOp == 0 - 1
Keep == "keep"

\* selection.transition().style("opacity", ..).style("pointer-events", ..)
\* on node elements; NoOp / Keep where the transition leaves a style alone
NodeTr(elems, opf, pef) ==
  [kind |-> "node", elems |-> elems, ulv |-> FALSE, op |-> opf, pe |-> pef]

\* a transition on every link: ulv when its opacity is the function of
\* updateLinkVisibility, evaluated on the nodes when the transition starts
LinkTr(ulv, opf) ==
  [kind |-> "link", elems |-> LinkIx, ulv |-> ulv, op |-> opf,
   pe |-> [l \in LinkIx |-> Keep]]

\* the fade-out of the mind-map connectors that ends in .remove()
RemoveTr ==
  [kind |-> "remove", elems |-> {}, ulv |-> FALSE,
   op |-> [l \in LinkIx |-> NoOp], pe |-> [l \in LinkIx |-> Keep]]

Levels == {0, 300, 600, 950, 1000}

\* the first frame of the transition that starts first on an element is
\* drawn a few milliseconds into it: the opacity leaves its start value by
\* a hair, towards the target
Nudge(v, tgt) ==
  IF v = tgt \/ v \notin Levels THEN v
  ELSE IF tgt > v THEN v + 1 ELSE v - 1

\* indices in pend of the transitions created on node n, in creation order
NodeTrans(n) ==
  SelectSeq([k \in 1 .. Len(pend) |-> k],
            LAMBDA k : pend[k].kind = "node" /\ n \in pend[k].elems)

\* indices in pend of the transitions created on the links
LinkTrans ==
  SelectSeq([k \in 1 .. Len(pend) |-> k], LAMBDA k : pend[k].kind = "link")

\* first frame of transition tr on node n: pointer-events, a string, takes
\* its target at once; the opacity is interpolated at the time elapsed,
\* which is positive for the element's first transition and zero for one
\* whose start was deferred behind it
Tick(s, tr, n, first) ==
  [op |-> IF tr.op[n] = NoOp \/ ~first THEN s.op ELSE Nudge(s.op, tr.op[n]),
   pe |-> IF tr.pe[n] = Keep THEN s.pe ELSE tr.pe[n]]

\* inline styles of node n once its first t transitions had their frame
RECURSIVE NodeAfter(_, _)
NodeAfter(n, t) ==
  IF t = 0 THEN [op |-> nodeOp[n], pe |-> nodePE[n]]
  ELSE Tick(NodeAfter(n, t - 1), pend[NodeTrans(n)[t]], n, t = 1)

\* how many transitions of node n had their frame when the link transition
\* at index K of pend, the (r+1)-th on the links, starts: the i-th
\* transition of an element starts in round i-1 and has its frame in round
\* i, and within a round the timers run in creation order
NodeTicksBy(n, r, K) ==
  Cardinality({ i \in 1 .. Len(NodeTrans(n)) :
                  i < r \/ (i = r /\ NodeTrans(n)[i] < K) })

\* the styles a node ends with: every transition but the last had one
\* frame, the last ran to its end
NodeFinal(n) ==
  LET m == Len(NodeTrans(n))
  IN  IF m = 0 THEN [op |-> nodeOp[n], pe |-> nodePE[n]]
      ELSE LET s == NodeAfter(n, m)
               last == pend[NodeTrans(n)[m]]
           IN  [op |-> IF last.op[n] = NoOp THEN s.op ELSE last.op[n],
                pe |-> s.pe]

\* updateLinkVisibility, lines 2013-2025: the opacity function, reading the
\* end nodes' elements as they are in round r before timer K
ULVOpacity(l, r, K) ==
  LET sourceNode == NodeElement(nodes[links[l].source].id)
      targetNode == NodeElement(nodes[links[l].target].id)
      sourceHidden == hidden[sourceNode]
          \/ NodeAfter(sourceNode, NodeTicksBy(sourceNode, r, K)).op = 0
      targetHidden == hidden[targetNode]
          \/ NodeAfter(targetNode, NodeTicksBy(targetNode, r, K)).op = 0
  IN  IF sourceHidden \/ targetHidden THEN 0 ELSE 600

\* the opacity a link ends with: the target of the last link transition
LinkFinal(l) ==
  LET m == Len(LinkTrans)
  IN  IF m = 0 THEN linkOp[l]
      ELSE LET K == LinkTrans[m]
           IN  IF pend[K].ulv THEN ULVOpacity(l, m - 1, K)
               ELSE IF pend[K].op[l] = NoOp THEN linkOp[l]
               ELSE pend[K].op[l]

----------------------------------------------------------------------------
(* Filters.  st = [hidden, pend]: the classes and the scheduled            *)
(* transitions a handler has produced so far.                               *)

ConstOp(v) == [n \in NodeIx |-> v]
ConstPE(v) == [n \in NodeIx |-> v]

\* updateLinkVisibility: one transition on every link
updateLinkVisibility(st) ==
  [st EXCEPT !.pend = Append(@, LinkTr(TRUE, [l \in LinkIx |-> NoOp]))]

\* toggleCategoryVisibility(category, showCategory)
toggleCategoryVisibility(st, category, showCategory) ==
  LET categoryElements == { n \in NodeIx : DataGroup(n) = category }
  IN  IF categoryElements = {} THEN st
      ELSE updateLinkVisibility(
             [hidden |-> [n \in NodeIx |->
                            IF n \in categoryElements THEN ~showCategory
                            ELSE st.hidden[n]],
              pend |-> Append(st.pend,
                         NodeTr(categoryElements,
                                ConstOp(IF showCategory THEN 1000 ELSE 0),
                                ConstPE(IF showCategory THEN "auto"
                                        ELSE "none")))])

\* toggleNonCoreNodes(showNonCore)
toggleNonCoreNodes(st, showNonCore) ==
  LET nonCoreElements == { n \in NodeIx : NonCore(n) }
  IN  updateLinkVisibility(
        [hidden |-> [n \in NodeIx |->
                       IF n \in nonCoreElements THEN ~showNonCore
                       ELSE st.hidden[n]],
         pend |-> Append(st.pend,
                    NodeTr(nonCoreElements,
                           ConstOp(IF showNonCore THEN 1000 ELSE 0),
                           ConstPE(IF showNonCore THEN "auto" ELSE "none")))])

\* setupCategoryToggles, lines 1912-1923: the initial state of every
\* checkbox, from the i-th on, is applied to the categories of the data
RECURSIVE ApplyInitial(_, _, _)
ApplyInitial(st, checked, i) ==
  IF i > Len(CheckboxSeq) THEN st
  ELSE LET category == CheckboxSeq[i]
       IN  ApplyInitial(
             IF category \in nodeGroups
             THEN toggleCategoryVisibility(st, category, checked[category])
             ELSE st,
             checked, i + 1)

\* the change handler of #toggle-all-categories, lines 1880-1889: every
\* checkbox that differs is set and its category toggled
RECURSIVE ToggleAllFrom(_, _, _, _)
ToggleAllFrom(st, checked, isChecked, i) ==
  IF i > Len(CheckboxSeq) THEN st
  ELSE LET category == CheckboxSeq[i]
       IN  ToggleAllFrom(
             IF checked[category] # isChecked
             THEN toggleCategoryVisibility(st, category, isChecked)
             ELSE st,
             checked, isChecked, i + 1)

\* updateToggleAllState, lines 1893-1908: declared with let inside the
\* block of "if (toggleAllCheckbox)", so out of scope where the checkbox
\* handlers would call it
updateToggleAllState(checked, ta) ==
  LET allChecked == \A c \in allCategoryCheckboxes : checked[c]
      allUnchecked == \A c \in allCategoryCheckboxes : ~checked[c]
  IN  IF allChecked THEN [checked |-> TRUE, indeterminate |-> FALSE]
      ELSE IF allUnchecked THEN [checked |-> FALSE, indeterminate |-> FALSE]
      ELSE [ta EXCEPT !.indeterminate = TRUE]

----------------------------------------------------------------------------
(* What is rendered *)

\* no transition is scheduled or running
Settled == pend = << >>

\* an opacity of zero, or within a hair of it
Faint == {0, 1}

\* the stylesheet rule for .hidden wins over the inline opacity
NodeVisible(n) == loadStatus = "ready" /\ ~hidden[n] /\ nodeOp[n] \notin Faint
LinkVisible(l) == loadStatus = "ready" /\ linkOp[l] \notin Faint

VisibleNodes == { n \in NodeIx : NodeVisible(n) }
VisibleLinks == { l \in LinkIx : LinkVisible(l) }

\* what is visible once the scheduled transitions have run
NodesAfter == { n \in NodeIx : ~hidden[n] /\ NodeFinal(n).op \notin Faint }
LinksAfter == { l \in LinkIx : LinkFinal(l) \notin Faint }

\* the disclosure state Collapsed as it is rendered
OnlyEnvironment ==
  /\ VisibleNodes = { n \in NodeIx : nodes[n].id = "environment" }
  /\ VisibleLinks = {}

\* the events seen so far: a round trip starts when a category is unchecked
\* with no node selected, and completes when the same category is checked
\* by the very next event
NoTrip == [phase |-> "none", category |-> "", nodes |-> {}, links |-> {}]

Observe(ev, category) ==
  /\ lastEvent' = ev
  /\ onlyFilters' = (onlyFilters /\ ev \in {"category", "toggleAll", "noncore"})
  /\ roundTrip' =
       IF ev # "category" THEN NoTrip
       ELSE IF /\ catChecked[category]
               /\ currentlySelectedNodeData = Null
               /\ mindMap = {}
       THEN [phase |-> "off", category |-> category,
             nodes |-> VisibleNodes, links |-> VisibleLinks]
       ELSE IF /\ ~catChecked[category]
               /\ roundTrip.phase = "off"
               /\ roundTrip.category = category
       THEN [roundTrip EXCEPT !.phase = "on"]
       ELSE NoTrip

----------------------------------------------------------------------------
(* Loading *)

\* the outcomes of fetch('data.json'): the promise rejects, the status is
\* not OK, the body is no JSON, the body is the JSON value null, the body
\* is a JSON object
Fetches == {"rejects", "notOk", "badJson", "null", "ok"}

NoData == [nodes |-> << >>, links |-> << >>]
JsonNull == [null |-> TRUE]

\* await response.json()
Body(resp) == IF resp.fetch = "null" THEN JsonNull ELSE resp.data

\* the truthiness of a value of the field examples, and Array.isArray
Truthy(v) == v \in {"array", "string"}
IsArray(v) == v = "array"

\* validateDataStructure(data), lines 94-135; a field that is missing or
\* empty is the empty string
validateDataStructure(data) ==
  /\ "null" \notin DOMAIN data
  /\ Len(data.nodes) # 0
  /\ Len(data.links) # 0
  /\ LET sampleNode == data.nodes[1]
     IN  sampleNode.id # "" /\ sampleNode.group # "" /\ sampleNode.label # ""
  /\ LET sampleLink == data.links[1]
     IN  /\ sampleLink.source # "" /\ sampleLink.target # ""
         /\ sampleLink.type # ""
         /\ ~(Truthy(sampleLink.examples) /\ ~IsArray(sampleLink.examples))

\* loadFoodSystemData() without the else branch of line 82: a JSON object
\* that fails validation is returned all the same
loadFoodSystemDataUnvalidated(resp) ==
  LET rejected(reason) ==
        [ok |-> FALSE, data |-> NoData,
         message |-> << "Error loading data.json: ", reason >>]
  IN  IF resp.fetch = "rejects" THEN rejected("Failed to fetch")
      ELSE IF resp.fetch = "notOk" THEN rejected("Failed to fetch data.json")
      ELSE IF resp.fetch = "badJson" THEN rejected("Unexpected token")
      ELSE IF "null" \notin DOMAIN Body(resp)
      THEN [ok |-> TRUE, data |-> Body(resp), message |-> << >>]
      ELSE rejected("Invalid data structure in data.json")

\* loadFoodSystemData(), lines 74-91: resolves with the data or rejects
\* with 'Error loading data.json: ' + the message of what was thrown
loadFoodSystemData(resp) ==
  LET rejected(reason) ==
        [ok |-> FALSE, data |-> NoData,
         message |-> << "Error loading data.json: ", reason >>]
  IN  IF resp.fetch = "rejects" THEN rejected("Failed to fetch")
      ELSE IF resp.fetch = "notOk" THEN rejected("Failed to fetch data.json")
      ELSE IF resp.fetch = "badJson" THEN rejected("Unexpected token")
      ELSE IF validateDataStructure(Body(resp))
      THEN [ok |-> TRUE, data |-> Body(resp), message |-> << >>]
      ELSE rejected("Invalid data structure in data.json")

\* d3.forceLink(links) at line 519 throws when an end of a link is no node
initializeVisualizationThrows(ls) ==
  \E k \in 1 .. Len(ls) : ls[k].source = 0 \/ ls[k].target = 0

\* lines 636-643: while the node elements are created, a node without
\* group is given the group 'uncategorized'
JoinNodes(ns) ==
  [ i \in 1 .. Len(ns) |->
      IF ns[i].group = "" THEN [ns[i] EXCEPT !.group = "uncategorized"]
      ELSE ns[i] ]

\* the promise chain of initPage, lines 51-71
initPage(resp) ==
  LET loaded == loadFoodSystemData(resp)
      ls == ResolveLinks(loaded.data)
  IN  IF ~loaded.ok
      THEN [status |-> "error", nodes |-> << >>, links |-> << >>,
            message |-> << "Error loading data: " >> \o loaded.message,
            ran |-> FALSE]
      ELSE IF initializeVisualizationThrows(ls)
      THEN [status |-> "error", nodes |-> loaded.data.nodes, links |-> ls,
            message |-> << "Error loading data: ",
                           "node not found: undefined" >>,
            ran |-> TRUE]
      ELSE [status |-> "ready", nodes |-> JoinNodes(loaded.data.nodes),
            links |-> ls,
            message |-> << >>, ran |-> TRUE]

\* the children of the container once initializeVisualization returned
Rendered ==
  {"tooltip", "svg", "reset-zoom-btn", "path-guide", "fullscreen-btn",
   "diagram-legend"}

----------------------------------------------------------------------------
(* Initialisation *)

\* initializeJourney: only the environment node is shown
\* no svg element exists
NoSize == [width |-> 0, height |-> 0]

\* no drag gesture is in progress
NoDrag == [d |-> Null, moved |-> FALSE]

JourneyOp == [n \in NodeIx |-> IF nodes[n].id = "environment" THEN 1000 ELSE 0]
JourneyPE ==
  [n \in NodeIx |-> IF nodes[n].id = "environment" THEN "auto" ELSE "none"]

\* the state once the promise chain of initPage has run.  When it ended
\* in initializeVisualization returning, the styles are those of the
\* closing initializeJourney() call and the transitions of
\* toggleNonCoreNodes and setupCategoryToggles are still to run; when it
\* ended in the catch handler, no element of the graph exists
Init ==
  /\ \E f \in Fetches, k \in 1 .. MaxData :
       response = [fetch |-> f,
                   data |-> IF f \in {"ok"} THEN DataSet(k) ELSE NoData]
  /\ LET out == initPage(response)
     IN  /\ loadStatus = out.status
         /\ errorMessage = out.message
         /\ initializeVisualizationRan = out.ran
         /\ nodes = out.nodes
         /\ links = out.links
  /\ container = IF loadStatus = "ready" THEN Rendered ELSE {"error-message"}
  /\ catChecked = [c \in allCategoryCheckboxes |-> TRUE]
  /\ toggleAll = [checked |-> TRUE, indeterminate |-> FALSE]
  /\ noncoreChecked = TRUE
  /\ LET st == ApplyInitial(
                 toggleNonCoreNodes(
                   [hidden |-> [n \in NodeIx |-> FALSE], pend |-> << >>],
                   noncoreChecked),
                 catChecked, 1)
     IN  /\ hidden = IF loadStatus = "ready" THEN st.hidden
                     ELSE [n \in NodeIx |-> FALSE]
         /\ pend = IF loadStatus = "ready" THEN st.pend ELSE << >>
  /\ nodeOp = IF loadStatus = "ready" THEN JourneyOp ELSE [n \in NodeIx |-> 0]
  /\ nodePE = IF loadStatus = "ready" THEN JourneyPE
              ELSE [n \in NodeIx |-> "none"]
  /\ linkOp = [l \in LinkIx |-> 0]
  /\ isJourneyExpanded = FALSE
  /\ expandedNodes = {"environment"}
  /\ currentView = "default"
  /\ currentlySelectedNodeData = Null
  /\ currentlySelectedNodeElement = Null
  /\ selectedClass = {}
  /\ fx = [n \in NodeIx |-> Null]
  /\ fy = [n \in NodeIx |-> Null]
  /\ svgSize = IF loadStatus = "ready"
               THEN [width |-> width, height |-> height] ELSE NoSize
  /\ dragging = NoDrag
  /\ x = IF loadStatus = "ready" THEN Xs(setInitialPositions)
         ELSE [n \in NodeIx |-> Null]
  /\ y = IF loadStatus = "ready" THEN Ys(setInitialPositions)
         ELSE [n \in NodeIx |-> Null]
  /\ simulationRunning = (loadStatus = "ready")
  /\ alphaTarget = 0
  /\ mindMap = {}
  /\ animated = FALSE
  /\ continueButtons = 0
  /\ stageShown = 0
  /\ events = 0
  /\ lastEvent = "init"
  /\ onlyFilters = TRUE
  /\ roundTrip = NoTrip

----------------------------------------------------------------------------
(* Steps *)

\* node.x, node.y of every node
Pos == [n \in NodeIx |-> [x |-> x[n], y |-> y[n]]]

\* the running simulation has a tick to make that moves a node
TickPending ==
  simulationRunning /\ Pos # TickPositions(Pos, fx, fy)

\* a user event is handled: the handlers are installed, the page is
\* settled and the simulation has caught up
Ready ==
  /\ ~TickPending
  /\ loadStatus = "ready"
  /\ pend = << >>
  /\ dragging = NoDrag
  /\ events < MaxEvents
  /\ events' = events + 1

\* the scheduled transitions run
Settle ==
  /\ pend # << >>
  /\ nodeOp' = [n \in NodeIx |-> NodeFinal(n).op]
  /\ nodePE' = [n \in NodeIx |-> NodeFinal(n).pe]
  /\ linkOp' = [l \in LinkIx |-> LinkFinal(l)]
  /\ mindMap' = IF \E k \in 1 .. Len(pend) : pend[k].kind = "remove"
                THEN {} ELSE mindMap
  /\ pend' = << >>
  /\ UNCHANGED << x, y, simulationRunning, alphaTarget, svgSize, dragging, response, loadStatus, errorMessage, container,
                  initializeVisualizationRan, nodes, links, hidden, isJourneyExpanded, expandedNodes, currentView,
                  currentlySelectedNodeData, currentlySelectedNodeElement,
                  selectedClass, fx, fy, animated, catChecked,
                  toggleAll, noncoreChecked, continueButtons, stageShown,
                  events, lastEvent, onlyFilters, roundTrip >>

\* the categories whose checkbox the user operates
UserCategories == nodeGroups \cup {"policy"}

\* change event of one .category-checkbox, lines 1926-1939; the guard
\* typeof updateToggleAllState === 'function' at 1936 is false
CategoryChange(category) ==
  /\ Ready
  /\ LET isChecked == ~catChecked[category]
         st == toggleCategoryVisibility([hidden |-> hidden, pend |-> << >>],
                                        category, isChecked)
     IN  /\ catChecked' = [catChecked EXCEPT ![category] = isChecked]
         /\ hidden' = st.hidden
         /\ pend' = st.pend
  /\ Observe("category", category)
  /\ UNCHANGED << x, y, simulationRunning, alphaTarget, svgSize, dragging, response, loadStatus, errorMessage, container,
                  initializeVisualizationRan, nodes, links, nodeOp, nodePE, linkOp, isJourneyExpanded,
                  expandedNodes, currentView, currentlySelectedNodeData,
                  currentlySelectedNodeElement, selectedClass, fx, fy,
                  mindMap, animated, toggleAll, noncoreChecked,
                  continueButtons, stageShown >>

\* change event of #toggle-all-categories, lines 1875-1890
ToggleAllChange ==
  /\ Ready
  /\ LET isChecked == ~toggleAll.checked
         st == ToggleAllFrom([hidden |-> hidden, pend |-> << >>],
                             catChecked, isChecked, 1)
     IN  /\ toggleAll' = [checked |-> isChecked, indeterminate |-> FALSE]
         /\ catChecked' = [c \in allCategoryCheckboxes |-> isChecked]
         /\ hidden' = st.hidden
         /\ pend' = st.pend
  /\ Observe("toggleAll", "")
  /\ UNCHANGED << x, y, simulationRunning, alphaTarget, svgSize, dragging, response, loadStatus, errorMessage, container,
                  initializeVisualizationRan, nodes, links, nodeOp, nodePE, linkOp, isJourneyExpanded,
                  expandedNodes, currentView, currentlySelectedNodeData,
                  currentlySelectedNodeElement, selectedClass, fx, fy,
                  mindMap, animated, noncoreChecked, continueButtons,
                  stageShown >>

\* change event of #noncore-toggle, lines 1947-1949
NonCoreChange ==
  /\ Ready
  /\ noncoreChecked' = ~noncoreChecked
  /\ LET st == toggleNonCoreNodes([hidden |-> hidden, pend |-> << >>],
                                  noncoreChecked')
     IN  /\ hidden' = st.hidden
         /\ pend' = st.pend
  /\ simulationRunning' = TRUE
  /\ Observe("noncore", "")
  /\ UNCHANGED << x, y, alphaTarget, svgSize, dragging, response, loadStatus, errorMessage, container,
                  initializeVisualizationRan, nodes, links, nodeOp, nodePE, linkOp, isJourneyExpanded,
                  expandedNodes, currentView, currentlySelectedNodeData,
                  currentlySelectedNodeElement, selectedClass, fx, fy,
                  mindMap, animated, catChecked, toggleAll, continueButtons,
                  stageShown >>

----------------------------------------------------------------------------
(* The food journey *)

\* findConnectedNodes(startNodeIds), lines 1430-1446: one pass over the
\* links, in dataset order, over the growing set
RECURSIVE ConnectFrom(_, _)
ConnectFrom(connectedNodeIds, k) ==
  IF k > Len(links) THEN connectedNodeIds
  ELSE LET src == nodes[links[k].source].id
           tgt == nodes[links[k].target].id
           s1 == IF src \in connectedNodeIds
                 THEN connectedNodeIds \cup {tgt} ELSE connectedNodeIds
           s2 == IF tgt \in s1 THEN s1 \cup {src} ELSE s1
       IN  ConnectFrom(s2, k + 1)

findConnectedNodes(startNodeIds) == ConnectFrom(startNodeIds, 1)

\* journeyStages[i-1].coreNodes, lines 1456-1580
coreNodes(i) ==
  LET s1 == {"environment", "inputs", "production", "fertilizer_industry",
             "pest_management"}
      s2 == s1 \cup {"packhouses", "processing"}
      s3 == s2 \cup {"distribution", "imports", "exports"}
      s4 == s3 \cup {"wholesalers", "food_rescue", "school_food_programs"}
      s5 == s4 \cup {"supermarkets", "grocers", "markets", "food_service",
                     "restaurants"}
      s6 == s5 \cup {"consumption"}
  IN  CASE i = 1 -> s1 [] i = 2 -> s2 [] i = 3 -> s3 [] i = 4 -> s4
        [] i = 5 -> s5 [] i = 6 -> s6
        [] OTHER -> { nodes[n].id : n \in NodeIx }

journeyStagesLength == 7

\* lines 1582-1605: the index (from 0) of the first stage whose core nodes
\* are all in expandedNodes, -1 when there is none
currentStageIndex ==
  LET M == { i \in 1 .. journeyStagesLength : coreNodes(i) \subseteq expandedNodes }
  IN  IF M = {} THEN 0 - 1
      ELSE (CHOOSE i \in M : \A j \in M : i <= j) - 1

nextStageIndex == (currentStageIndex + 1) % journeyStagesLength

\* the node and link transitions of expandFoodJourney (1383-1402) and
\* continueFoodJourney (1654-1673) for a set of expanded ids
JourneyTransitions(expanded) ==
  << NodeTr(NodeIx,
            [n \in NodeIx |-> IF nodes[n].id \in expanded THEN 1000 ELSE 0],
            [n \in NodeIx |->
               IF nodes[n].id \in expanded THEN "auto" ELSE "none"]),
     LinkTr(FALSE,
            [l \in LinkIx |->
               IF /\ nodes[links[l].source].id \in expanded
                  /\ nodes[links[l].target].id \in expanded
               THEN IF links[l].type = "flow" THEN 950 ELSE 600
               ELSE 0]) >>

\* expandFoodJourney(startNode), lines 1324-1427
expandFoodJourney(pre) ==
  LET connectedNodes == findConnectedNodes({"environment"})
      coreStageNodes == {"inputs", "production", "fertilizer_industry",
                         "pest_management"}
      firstStageNodes == {"environment"} \cup (coreStageNodes \cap connectedNodes)
  IN  /\ expandedNodes' = firstStageNodes
      /\ pend' = JourneyTransitions(firstStageNodes)
      /\ isJourneyExpanded' = TRUE
      /\ continueButtons' = continueButtons + 1
      /\ stageShown' = 1
      /\ x' = Xs(FirstStagePositions(pre, firstStageNodes))
      /\ y' = Ys(FirstStagePositions(pre, firstStageNodes))
      /\ UNCHANGED << svgSize, dragging, response, loadStatus, errorMessage, container,
                  initializeVisualizationRan, nodes, links, hidden, nodeOp, nodePE, linkOp, currentView,
                      currentlySelectedNodeData, currentlySelectedNodeElement,
                      selectedClass, mindMap, animated, catChecked,
                      toggleAll, noncoreChecked >>

\* continueFoodJourney(), lines 1449-1683
continueFoodJourney ==
  LET next == nextStageIndex + 1
      nextCoreCoreNodes == coreNodes(next)
      allConnectedNodes == findConnectedNodes(nextCoreCoreNodes)
  IN  /\ expandedNodes' = nextCoreCoreNodes \cup allConnectedNodes
      /\ pend' = JourneyTransitions(expandedNodes')
      /\ stageShown' = next
      /\ x' = Xs(StagePositions(Pos, next, expandedNodes'))
      /\ y' = Ys(StagePositions(Pos, next, expandedNodes'))
      /\ UNCHANGED << simulationRunning, alphaTarget, svgSize, dragging, response, loadStatus, errorMessage, container,
                  initializeVisualizationRan, nodes, links, hidden, nodeOp, nodePE, linkOp, isJourneyExpanded,
                      currentView, currentlySelectedNodeData,
                      currentlySelectedNodeElement, selectedClass, fx, fy,
                      mindMap, animated, catChecked, toggleAll,
                      noncoreChecked, continueButtons >>

\* click on the "Continue Journey" button
ContinueClick ==
  /\ Ready
  /\ continueButtons > 0
  /\ continueFoodJourney
  /\ Observe("continue", "")

----------------------------------------------------------------------------
(* The focus (mind-map) view *)

\* String.prototype.localeCompare on the ids of the payloads
IdOrder ==
  << "climate", "consumption", "distribution", "environment",
     "fertilizer_industry", "food_waste", "inputs", "packhouses",
     "pest_management", "production", "wholesalers" >>
IdRank(id) == CHOOSE r \in 1 .. Len(IdOrder) : IdOrder[r] = id

\* line 897: the link types that make a neighbour
FocusTypes(isNegativeView) ==
  IF isNegativeView THEN {"flow", "influence", "waste", "problem"}
  ELSE {"flow", "influence", "waste"}

\* lines 895-898: the link joins d and has a neighbour-making type
Qualifies(l, d) ==
  /\ links[l].source = d \/ links[l].target = d
  /\ links[l].type \in FocusTypes(currentView = "negative")

\* line 899
otherNode(l, d) ==
  IF links[l].source = d THEN links[l].target ELSE links[l].source

\* line 903: [source.id, target.id].sort().join('-') + '-' + type
linkKey(a, b, type) == [ends |-> {nodes[a].id, nodes[b].id}, type |-> type]

\* lines 887-900
connectedNodes(d) ==
  {d} \cup { otherNode(l, d) : l \in { k \in LinkIx : Qualifies(k, d) } }

\* lines 890-913: the first link met for every key, in dataset order
connectedLinks(d) ==
  SelectSeq([k \in LinkIx |-> k],
            LAMBDA k :
              /\ Qualifies(k, d)
              /\ \A j \in 1 .. (k - 1) :
                   ~ ( /\ Qualifies(j, d)
                       /\ linkKey(links[j].source, links[j].target,
                                  links[j].type)
                          = linkKey(links[k].source, links[k].target,
                                    links[k].type) ))

\* lines 930-942: one {node, link} entry per connected link
Entries(cl, d) ==
  [ i \in 1 .. Len(cl) |-> [node |-> otherNode(cl[i], d), link |-> cl[i]] ]

\* Object.keys(nodesByGroup): the groups in the order they were first met
RECURSIVE GroupKeys(_, _, _)
GroupKeys(es, i, acc) ==
  IF i > Len(es) THEN acc
  ELSE GroupKeys(es, i + 1,
                 IF nodes[es[i].node].group \in SeqRange(acc) THEN acc
                 ELSE Append(acc, nodes[es[i].node].group))

\* line 946: stable sort of a group's entries by node id
RECURSIVE InsertById(_, _)
InsertById(e, sorted) ==
  IF sorted = << >> THEN << e >>
  ELSE IF IdRank(nodes[e.node].id) < IdRank(nodes[Head(sorted).node].id)
       THEN << e >> \o sorted
       ELSE << Head(sorted) >> \o InsertById(e, Tail(sorted))

RECURSIVE SortById(_)
SortById(es) ==
  IF es = << >> THEN << >>
  ELSE InsertById(es[Len(es)], SortById(SubSeq(es, 1, Len(es) - 1)))

GroupEntries(es, group) ==
  SortById(SelectSeq(es, LAMBDA e : nodes[e.node].group = group))

RECURSIVE ConcatGroups(_, _, _)
ConcatGroups(es, keys, i) ==
  IF i > Len(keys) THEN << >>
  ELSE GroupEntries(es, keys[i]) \o ConcatGroups(es, keys, i + 1)

\* lines 950-964
leftNodes(es) ==
  ConcatGroups(es, SelectSeq(GroupKeys(es, 1, << >>),
                             LAMBDA g : g = "factor"), 1)
rightNodes(es) ==
  ConcatGroups(es, SelectSeq(GroupKeys(es, 1, << >>),
                             LAMBDA g : g # "factor"), 1)

centerX == width \div 2
centerY == height \div 2
horizontalSpacing == 350
verticalSpacing == 120

\* the last slot of node m in a side list, 0 when it has none
LastSlot(side, m) ==
  LET S == { i \in 1 .. Len(side) : side[i].node = m }
  IN  IF S = {} THEN 0 ELSE CHOOSE i \in S : \A j \in S : j <= i

SlotY(side, i) ==
  centerY - ((Len(side) - 1) * verticalSpacing) \div 2 + (i - 1) * verticalSpacing

\* lines 922-988: the pins after the root, the left side and the right side
\* were placed in that order
FocusFx(d, left, right) ==
  [ m \in NodeIx |->
      IF LastSlot(right, m) # 0 THEN centerX + horizontalSpacing
      ELSE IF LastSlot(left, m) # 0 THEN centerX - horizontalSpacing
      ELSE IF m = d THEN centerX
      ELSE fx[m] ]
FocusFy(d, left, right) ==
  [ m \in NodeIx |->
      IF LastSlot(right, m) # 0 THEN SlotY(right, LastSlot(right, m))
      ELSE IF LastSlot(left, m) # 0 THEN SlotY(left, LastSlot(left, m))
      ELSE IF m = d THEN centerY
      ELSE fy[m] ]

\* lines 1017-1058: one connector per key of renderedLinks
Connectors(cl, d) ==
  { LET l == cl[i]
        source == IF links[l].source = d THEN d ELSE links[l].source
        target == IF links[l].source = d THEN links[l].target
                  ELSE links[l].source
    IN  [key |-> linkKey(source, target, links[l].type),
         from |-> source, to |-> target]
    : i \in 1 .. Len(cl) }

\* nodeClicked(event, d) past the progressive-reveal case, lines 866-1320
FocusNode(d, pre) ==
  LET cl == connectedLinks(d)
      es == Entries(cl, d)
      left == leftNodes(es)
      right == rightNodes(es)
      cn == connectedNodes(d)
  IN
  /\ currentlySelectedNodeData' = d
  /\ currentlySelectedNodeElement' = d
  /\ selectedClass' =
       (IF currentlySelectedNodeElement # Null
        THEN selectedClass \ {currentlySelectedNodeElement}
        ELSE selectedClass) \cup {d}
  /\ animated' = FALSE
  /\ fx' = FocusFx(d, left, right)
  /\ fy' = FocusFy(d, left, right)
  /\ x' = [m \in NodeIx |->
             IF m = d \/ LastSlot(left, m) # 0 \/ LastSlot(right, m) # 0
             THEN fx'[m] ELSE pre[m].x]
  /\ y' = [m \in NodeIx |->
             IF m = d \/ LastSlot(left, m) # 0 \/ LastSlot(right, m) # 0
             THEN fy'[m] ELSE pre[m].y]
  /\ mindMap' = Connectors(cl, d)
  /\ pend' = << NodeTr(NodeIx,
                       [n \in NodeIx |-> IF n \in cn THEN 1000 ELSE 0],
                       [n \in NodeIx |-> IF n \in cn THEN "auto" ELSE "none"]),
                NodeTr(NodeIx, ConstOp(NoOp), ConstPE(Keep)),
                LinkTr(FALSE, [l \in LinkIx |-> 0]) >>
  /\ UNCHANGED << svgSize, dragging, response, loadStatus, errorMessage, container,
                  initializeVisualizationRan, nodes, links, hidden, nodeOp, nodePE, linkOp,
                  isJourneyExpanded, expandedNodes, currentView, catChecked,
                  toggleAll, noncoreChecked, continueButtons, stageShown >>

\* the circle of node d takes pointer events
Clickable(d) == ~hidden[d] /\ nodePE[d] # "none"

\* the test of line 2138: d.id !== currentlySelectedNodeData?.id
ReleasedAtEnd(d) ==
  \/ currentlySelectedNodeData = Null
  \/ nodes[d].id # nodes[currentlySelectedNodeData].id

\* the pins after dragstarted (2125-2126) and dragended (2138-2141) of a
\* gesture that did not move, as it precedes every click on a node
ClickPins(pins, d, at) ==
  IF ReleasedAtEnd(d) THEN [pins EXCEPT ![d] = Null]
  ELSE [pins EXCEPT ![d] = at]

\* node.x, node.y when the click handler runs: dragstarted has pinned d
\* where it is and restarted the simulation, which has ticked or not
\* before the mouse button went up
PressPositions(d, ticked) ==
  IF ticked
  THEN TickPositions(Pos, [fx EXCEPT ![d] = x[d]], [fy EXCEPT ![d] = y[d]])
  ELSE Pos

\* nodeClicked(event, d), lines 857-1321, after the dragstarted and
\* dragended of the mouse-down and mouse-up that make the click; FocusNode
\* overwrites the pin of d that these leave and stops the simulation
\* (line 916)
nodeClicked(d) ==
  /\ Ready
  /\ Clickable(d)
  /\ \E ticked \in BOOLEAN :
       IF nodes[d].id = "environment" /\ ~isJourneyExpanded
       THEN /\ expandFoodJourney(PressPositions(d, ticked))
            /\ fx' = ClickPins(fx, d, x[d])
            /\ fy' = ClickPins(fy, d, y[d])
            /\ simulationRunning' = TRUE
       ELSE /\ FocusNode(d, PressPositions(d, ticked))
            /\ simulationRunning' = FALSE
  /\ alphaTarget' = 0
  /\ Observe("node", "")

----------------------------------------------------------------------------
(* Background click and view modes *)

\* svg.on('click'), lines 2057-2119
BackgroundClick ==
  /\ Ready
  /\ IF isJourneyExpanded /\ Cardinality(expandedNodes) < Len(nodes)
     THEN /\ continueFoodJourney
          /\ Observe("backgroundContinue", "")
     ELSE /\ selectedClass' =
               IF currentlySelectedNodeElement # Null
               THEN selectedClass \ {currentlySelectedNodeElement}
               ELSE selectedClass
          /\ currentlySelectedNodeElement' = Null
          /\ currentlySelectedNodeData' =
               IF currentlySelectedNodeElement # Null THEN Null
               ELSE currentlySelectedNodeData
          /\ fx' = [n \in NodeIx |-> Null]
          /\ fy' = [n \in NodeIx |-> Null]
          /\ simulationRunning' = FALSE
          /\ x' = Xs(setInitialPositions)
          /\ y' = Ys(setInitialPositions)
          /\ pend' = << NodeTr(NodeIx,
                               [n \in NodeIx |-> IF hidden[n] THEN 0 ELSE 1000],
                               [n \in NodeIx |->
                                  IF hidden[n] THEN "none" ELSE "auto"]),
                        RemoveTr,
                        LinkTr(TRUE, [l \in LinkIx |-> NoOp]) >>
          /\ animated' = TRUE
          /\ Observe("backgroundReset", "")
          /\ UNCHANGED << alphaTarget, svgSize, dragging, response, loadStatus, errorMessage, container,
                  initializeVisualizationRan, nodes, links, hidden, nodeOp, nodePE, linkOp,
                          isJourneyExpanded, expandedNodes, currentView,
                          mindMap, catChecked, toggleAll, noncoreChecked,
                          continueButtons, stageShown >>

\* applyRegenStyles, lines 1715-1717: the call of the undeclared
\* updateNodeDetails raises a ReferenceError
applyRegenStylesThrows ==
  /\ currentlySelectedNodeData # Null
  /\ nodes[currentlySelectedNodeData].isRegenModified

Views == {"default", "regen", "negative"}

\* applyViewMode(view), lines 1738-1760; the opacities are not reached when
\* applyRegenStyles raised
applyViewMode(view) ==
  /\ Ready
  /\ currentView' = view
  /\ IF view \in {"regen", "default"} /\ applyRegenStylesThrows
     THEN UNCHANGED << nodeOp, linkOp >>
     ELSE /\ nodeOp' =
               [n \in NodeIx |->
                  IF view = "regen"
                  THEN IF nodes[n].isRegenModified THEN 1000 ELSE 300
                  ELSE 1000]
          /\ linkOp' =
               [l \in LinkIx |->
                  IF view = "regen"
                  THEN IF links[l].isRegenHighlight THEN 1000 ELSE 300
                  ELSE IF view = "negative"
                  THEN IF links[l].type = "waste" THEN 1000 ELSE 300
                  ELSE 1000]
  /\ Observe("view", "")
  /\ UNCHANGED << x, y, simulationRunning, alphaTarget, svgSize, dragging, response, loadStatus, errorMessage, container,
                  initializeVisualizationRan, nodes, links, hidden, nodePE, isJourneyExpanded, expandedNodes,
                  currentlySelectedNodeData, currentlySelectedNodeElement,
                  selectedClass, fx, fy, mindMap, animated, catChecked,
                  toggleAll, noncoreChecked, continueButtons, stageShown,
                  pend >>

----------------------------------------------------------------------------
(* Resize *)

\* the sizes the window is resized to
WindowSizes == { [width |-> 800, height |-> 600],
                 [width |-> 1920, height |-> 1080] }

\* a resize handler that also lets go of every pin
resizeUnpinning(size) ==
  /\ Ready
  /\ svgSize' = size
  /\ x' = Xs(positionNodes(nodes, size.width, size.height))
  /\ y' = Ys(positionNodes(nodes, size.width, size.height))
  /\ fx' = [n \in NodeIx |-> Null]
  /\ fy' = [n \in NodeIx |-> Null]
  /\ Observe("resize", "")
  /\ UNCHANGED << simulationRunning, alphaTarget, dragging, response, loadStatus, errorMessage, container,
                  initializeVisualizationRan, nodes, links, hidden, nodeOp,
                  nodePE, linkOp, isJourneyExpanded, expandedNodes,
                  currentView, currentlySelectedNodeData,
                  currentlySelectedNodeElement, selectedClass, mindMap,
                  animated, catChecked, toggleAll, noncoreChecked,
                  continueButtons, stageShown, pend >>

\* window 'resize' listener, lines 2041-2054: the svg takes the size of the
\* window; positionNodes (lines 138-171) and updatePositions (lines
\* 843-854) write node.x, node.y and the drawn positions only
resize(size) ==
  /\ Ready
  /\ svgSize' = size
  /\ x' = Xs(positionNodes(nodes, size.width, size.height))
  /\ y' = Ys(positionNodes(nodes, size.width, size.height))
  /\ Observe("resize", "")
  /\ UNCHANGED << simulationRunning, alphaTarget, dragging, response, loadStatus, errorMessage, container,
                  initializeVisualizationRan, nodes, links, hidden, nodeOp,
                  nodePE, linkOp, isJourneyExpanded, expandedNodes,
                  currentView, currentlySelectedNodeData,
                  currentlySelectedNodeElement, selectedClass, fx, fy,
                  mindMap, animated, catChecked, toggleAll, noncoreChecked,
                  continueButtons, stageShown, pend >>

----------------------------------------------------------------------------
(* Drag *)

\* where the pointer is during a gesture
Pointers == { [x |-> 200, y |-> 100], [x |-> 900, y |-> 700] }

\* d3.zoomTransform(svg.node()), line 2131
ZoomTransforms == { [k |-> 1, x |-> 0, y |-> 0], [k |-> 2, x |-> 100, y |-> 50] }

\* transform.invertX, transform.invertY of d3-zoom
invertX(transform, px) == (px - transform.x) \div transform.k
invertY(transform, py) == (py - transform.y) \div transform.k

\* dragstarted(event, d), lines 2123-2128
dragstarted(d) ==
  /\ Ready
  /\ Clickable(d)
  /\ fx' = [fx EXCEPT ![d] = x[d]]
  /\ fy' = [fy EXCEPT ![d] = y[d]]
  /\ simulationRunning' = TRUE
  /\ alphaTarget' = 300
  /\ dragging' = [d |-> d, moved |-> FALSE]
  /\ Observe("dragstarted", "")
  /\ UNCHANGED << x, y, svgSize, response, loadStatus, errorMessage, container,
                  initializeVisualizationRan, nodes, links, hidden, nodeOp,
                  nodePE, linkOp, isJourneyExpanded, expandedNodes,
                  currentView, currentlySelectedNodeData,
                  currentlySelectedNodeElement, selectedClass, mindMap,
                  animated, catChecked, toggleAll, noncoreChecked,
                  continueButtons, stageShown, pend >>

\* dragged(event, d), lines 2130-2134
dragged ==
  /\ dragging # NoDrag
  /\ ~TickPending
  /\ \E event \in Pointers, transform \in ZoomTransforms :
       /\ fx' = [fx EXCEPT ![dragging.d] = invertX(transform, event.x)]
       /\ fy' = [fy EXCEPT ![dragging.d] = invertY(transform, event.y)]
  /\ dragging' = [dragging EXCEPT !.moved = TRUE]
  /\ Observe("dragged", "")
  /\ UNCHANGED << x, y, simulationRunning, alphaTarget, svgSize, response, loadStatus, errorMessage, container,
                  initializeVisualizationRan, nodes, links, hidden, nodeOp,
                  nodePE, linkOp, isJourneyExpanded, expandedNodes,
                  currentView, currentlySelectedNodeData,
                  currentlySelectedNodeElement, selectedClass, mindMap,
                  animated, catChecked, toggleAll, noncoreChecked,
                  continueButtons, stageShown, pend, events >>

\* dragended(event, d), lines 2136-2143, of a gesture that moved; the click
\* that would follow is suppressed by d3-drag
dragended ==
  /\ dragging # NoDrag
  /\ dragging.moved
  /\ ~TickPending
  /\ alphaTarget' = 0
  /\ fx' = IF ReleasedAtEnd(dragging.d)
           THEN [fx EXCEPT ![dragging.d] = Null] ELSE fx
  /\ fy' = IF ReleasedAtEnd(dragging.d)
           THEN [fy EXCEPT ![dragging.d] = Null] ELSE fy
  /\ dragging' = NoDrag
  /\ Observe("dragended", "")
  /\ UNCHANGED << x, y, simulationRunning, svgSize, response, loadStatus, errorMessage, container,
                  initializeVisualizationRan, nodes, links, hidden, nodeOp,
                  nodePE, linkOp, isJourneyExpanded, expandedNodes,
                  currentView, currentlySelectedNodeData,
                  currentlySelectedNodeElement, selectedClass, mindMap,
                  animated, catChecked, toggleAll, noncoreChecked,
                  continueButtons, stageShown, pend, events >>

----------------------------------------------------------------------------
(* The force simulation *)

\* a tick of the simulation's timer and its 'tick' listener
\* updatePositions, line 2152
tick ==
  /\ TickPending
  /\ x' = Xs(TickPositions(Pos, fx, fy))
  /\ y' = Ys(TickPositions(Pos, fx, fy))
  /\ UNCHANGED << simulationRunning, alphaTarget, svgSize, dragging, response, loadStatus, errorMessage,
                  container, initializeVisualizationRan, nodes, links,
                  hidden, nodeOp, nodePE, linkOp, isJourneyExpanded,
                  expandedNodes, currentView, currentlySelectedNodeData,
                  currentlySelectedNodeElement, selectedClass, fx, fy,
                  mindMap, animated, catChecked, toggleAll, noncoreChecked,
                  continueButtons, stageShown, pend, events, lastEvent,
                  onlyFilters, roundTrip >>

\* alpha has decayed below alphaMin: the simulation stops its timer
simulationEnd ==
  /\ simulationRunning
  /\ alphaTarget = 0
  /\ ~TickPending
  /\ simulationRunning' = FALSE
  /\ UNCHANGED << x, y, alphaTarget, svgSize, dragging, response, loadStatus, errorMessage,
                  container, initializeVisualizationRan, nodes, links,
                  hidden, nodeOp, nodePE, linkOp, isJourneyExpanded,
                  expandedNodes, currentView, currentlySelectedNodeData,
                  currentlySelectedNodeElement, selectedClass, fx, fy,
                  mindMap, animated, catChecked, toggleAll, noncoreChecked,
                  continueButtons, stageShown, pend, events, lastEvent,
                  onlyFilters, roundTrip >>

Next ==
  \/ Settle
  \/ \E category \in UserCategories : CategoryChange(category)
  \/ ToggleAllChange
  \/ NonCoreChange
  \/ \E d \in NodeIx : nodeClicked(d)
  \/ ContinueClick
  \/ BackgroundClick
  \/ \E view \in Views : applyViewMode(view)
  \/ \E size \in WindowSizes : resize(size)
  \/ \E d \in NodeIx : dragstarted(d)
  \/ dragged
  \/ dragended
  \/ tick
  \/ simulationEnd

Spec == Init /\ [][Next]_vars

----------------------------------------------------------------------------
(* Claims *)

\* a journey transition into a stage: the continue button, or a background
\* click that advances the journey
Continued == events' # events /\ lastEvent' \in {"continue", "backgroundContinue"}

\* the ids of the loaded nodes
Ids == { nodes[n].id : n \in NodeIx }

\* the ids sharing a link with a member of ids
OneHop(ids) ==
  { nodes[links[l].target].id :
      l \in { k \in LinkIx : nodes[links[k].source].id \in ids } }
  \cup { nodes[links[l].source].id :
           l \in { k \in LinkIx : nodes[links[k].target].id \in ids } }

\* the disclosure state Full: the journey is on and every node is disclosed
Full == isJourneyExpanded /\ Ids \subseteq expandedNodes

\* the disclosure state Collapsed
Collapsed == ~isJourneyExpanded /\ expandedNodes = {"environment"}

\* C1: after any sequence of category, toggle-all and non-core changes, a
\* node is visible only if its category checkbox is checked and it is a
\* core_flow node or the non-core toggle is checked
C1_FiltersCombineByAnd ==
  (onlyFilters /\ Settled) =>
    \A n \in NodeIx :
      NodeVisible(n) =>
        /\ catChecked[DataGroup(n)]
        /\ (~NonCore(n) \/ noncoreChecked)

\* C2: unchecking a category in an unfocused state and checking it again
\* leaves the visible nodes and the visible links as they were before
C2_CategoryRoundTrip ==
  (roundTrip.phase = "on" /\ Settled) =>
    /\ VisibleNodes = roundTrip.nodes
    /\ VisibleLinks = roundTrip.links

\* C3: every continue moves the journey from Stage k to Stage k+1, and from
\* Stage 6 to the full system
C3_JourneyProgression ==
  [][(Continued /\ stageShown \in 1 .. 6) => stageShown' = stageShown + 1]_vars

\* C4: a continue in the state Full moves to Collapsed: the transitions it
\* schedules leave only the environment node visible and no link
C4_Wraparound ==
  [][(Continued /\ Full) =>
       /\ Collapsed'
       /\ NodesAfter' = { n \in NodeIx : nodes[n].id = "environment" }
       /\ LinksAfter' = {}]_vars

\* C5: after a journey transition into a stage, the loaded nodes disclosed
\* are exactly those of the stage's core list and those sharing a link with
\* a member of it
C5_OneHopReveal ==
  lastEvent \in {"continue", "backgroundContinue"} =>
    expandedNodes \cap Ids =
      (coreNodes(stageShown) \cup OneHop(coreNodes(stageShown))) \cap Ids

\* C6: once the data is loaded and the transitions scheduled during
\* initialisation have run, only
\* the environment node is visible and every link is hidden
C6_InitialCollapsed ==
  (loadStatus = "ready" /\ lastEvent = "init" /\ Settled) => OnlyEnvironment

\* C7: a background click while the journey has not started and no node is
\* selected leaves, once its transitions have run, only the environment
\* node visible and no link
C7_BackgroundInCollapsed ==
  [][(/\ events' # events
      /\ lastEvent' \in {"backgroundReset", "backgroundContinue"}
      /\ Collapsed
      /\ currentlySelectedNodeData = Null) =>
       /\ Collapsed'
       /\ NodesAfter' = { n \in NodeIx : nodes[n].id = "environment" }
       /\ LinksAfter' = {}]_vars

\* C8: a view-mode button leaves isJourneyExpanded, expandedNodes, the set
\* of visible nodes and the set of visible links unchanged
C8_ViewKeepsDisclosure ==
  [][(events' # events /\ lastEvent' = "view") =>
       /\ UNCHANGED << isJourneyExpanded, expandedNodes >>
       /\ VisibleNodes' = VisibleNodes
       /\ VisibleLinks' = VisibleLinks]_vars

\* C9: in every settled state each visible link has its source node and
\* its target node visible
C9_VisibleLinkEnds ==
  Settled =>
    \A l \in VisibleLinks :
      /\ NodeVisible(NodeElement(nodes[links[l].source].id))
      /\ NodeVisible(NodeElement(nodes[links[l].target].id))

\* C10: a background click while a node is focused clears the selection,
\* releases every pin, removes the mind-map connectors and restarts the
\* idle link animation
C10_ExitFocus ==
  [][(/\ events' # events
      /\ lastEvent' \in {"backgroundReset", "backgroundContinue"}
      /\ currentlySelectedNodeData # Null) =>
       /\ currentlySelectedNodeData' = Null
       /\ currentlySelectedNodeElement' = Null
       /\ selectedClass' = {}
       /\ \A n \in NodeIx : fx'[n] = Null /\ fy'[n] = Null
       /\ (mindMap' = {} \/ \E k \in 1 .. Len(pend') : pend'[k].kind = "remove")
       /\ animated']_vars


\* what went wrong with a load, as the user is to read it
FailureReason(resp) ==
  CASE resp.fetch = "rejects" -> "Failed to fetch"
    [] resp.fetch = "notOk" -> "Failed to fetch data.json"
    [] resp.fetch = "badJson" -> "Unexpected token"
    [] OTHER -> "Invalid data structure in data.json"

\* the load fails: fetch rejects, the status is not OK, the body is no
\* JSON, or the shape validation fails
LoadFails(resp) ==
  \/ resp.fetch \in {"rejects", "notOk", "badJson"}
  \/ ~validateDataStructure(Body(resp))

\* some link of the data names an end that no node carries
HasUnresolvedLink(data) ==
  \E k \in 1 .. Len(data.links) :
    \/ nodeMap(data.nodes, data.links[k].source) = 0
    \/ nodeMap(data.nodes, data.links[k].target) = 0

\* C11: when the load fails, initializeVisualization is not run and the
\* container holds nothing but an error message that carries the reason
C11_LoadFailureFatal ==
  LoadFails(response) =>
    /\ loadStatus = "error"
    /\ ~initializeVisualizationRan
    /\ container = {"error-message"}
    /\ FailureReason(response) \in SeqRange(errorMessage)

\* a JSON object arrived and failed the shape validation
C11_Witness ==
  /\ response.fetch = "ok"
  /\ ~validateDataStructure(response.data)
  /\ loadStatus = "error"

\* C12: when initialisation ends in the error outcome, nodes and links are
\* still empty and nothing of the visualization is in the container
C12_NoPartialState ==
  loadStatus = "error" =>
    /\ nodes = << >>
    /\ links = << >>
    /\ container \cap Rendered = {}

\* C13: a shape-valid dataset with a link to an id no node carries loads,
\* and no rendered link has an unresolved end
C13_UnresolvedLinksDropped ==
  (/\ response.fetch = "ok"
   /\ validateDataStructure(response.data)
   /\ HasUnresolvedLink(response.data)) =>
    /\ loadStatus = "ready"
    /\ \A l \in LinkIx : links[l].source # 0 /\ links[l].target # 0

\* C14: after a load every id is carried by exactly one node, and the
\* lookups by id (link resolution, element selection) meet the same node
C14_DuplicateIds ==
  loadStatus = "ready" =>
    /\ \A i, j \in NodeIx : nodes[i].id = nodes[j].id => i = j
    /\ \A n \in NodeIx :
         nodeMap(nodes, nodes[n].id) = NodeElement(nodes[n].id)

\* C15: the dataset of the single node 'environment' and no links loads,
\* and after a click on the node the node is visible
C15_ZeroNeighbour ==
  (/\ response.fetch = "ok"
   /\ Len(response.data.nodes) = 1
   /\ response.data.nodes[1].id = "environment"
   /\ response.data.links = << >>) =>
    /\ loadStatus = "ready"
    /\ (lastEvent = "node" /\ Settled) => NodeVisible(1)

\* C16: a resize while a node is focused does not un-pin: the focused node
\* and every node the focus layout pinned keep the pin coordinates they had
\* before the resize handler ran, and these are not null
C16_ResizeKeepsPins ==
  [][(/\ events' # events
      /\ lastEvent' = "resize"
      /\ currentlySelectedNodeData # Null) =>
       /\ fx'[currentlySelectedNodeData] # Null
       /\ fy'[currentlySelectedNodeData] # Null
       /\ \A n \in NodeIx :
            fx[n] # Null => fx'[n] = fx[n] /\ fy'[n] = fy[n]]_vars

\* a resize happened while a node was focused with a pinned neighbour
C16_Witness ==
  /\ lastEvent = "resize"
  /\ svgSize # [width |-> width, height |-> height]
  /\ currentlySelectedNodeData # Null
  /\ fx[currentlySelectedNodeData] = centerX
  /\ \E n \in NodeIx \ {currentlySelectedNodeData} :
       fx[n] # Null /\ fy[n] # Null

\* C17: from drag start until drag end the dragged node is pinned, and when
\* the drag ends its pin is released (fx = fy = null) if and only if it is
\* not the currently focused node
C17_DragPinning ==
  [][/\ (dragging' # NoDrag =>
           fx'[dragging'.d] # Null /\ fy'[dragging'.d] # Null)
     /\ (dragging # NoDrag /\ dragging' = NoDrag) =>
           ((fx'[dragging.d] = Null /\ fy'[dragging.d] = Null)
              <=> dragging.d # currentlySelectedNodeData)]_vars

\* the category checkboxes are all checked / all unchecked
AllChecked == \A c \in allCategoryCheckboxes : catChecked[c]
AllUnchecked == \A c \in allCategoryCheckboxes : ~catChecked[c]

\* C18: after every change of a category checkbox or of the toggle-all box,
\* toggle-all is checked and not indeterminate iff every category checkbox
\* is checked, unchecked and not indeterminate iff every one is unchecked,
\* and indeterminate iff they are mixed; a change of toggle-all gives its
\* new value to every category checkbox and to the visibility of its
\* category
C18_ToggleAllTriState ==
  [][(events' # events /\ lastEvent' \in {"category", "toggleAll"}) =>
       /\ (toggleAll'.checked /\ ~toggleAll'.indeterminate) <=> AllChecked'
       /\ (~toggleAll'.checked /\ ~toggleAll'.indeterminate) <=> AllUnchecked'
       /\ toggleAll'.indeterminate <=> (~AllChecked' /\ ~AllUnchecked')
       /\ lastEvent' = "toggleAll" =>
            /\ \A c \in allCategoryCheckboxes :
                 catChecked'[c] = toggleAll'.checked
            /\ \A n \in NodeIx :
                 nodes[n].group \in allCategoryCheckboxes =>
                   (hidden'[n] <=> ~toggleAll'.checked)]_vars

\* the node click of this step entered focus: it is not the click on
\* 'environment' that starts the journey
FocusClick ==
  /\ events' # events
  /\ lastEvent' = "node"
  /\ isJourneyExpanded' = isJourneyExpanded

\* the nodes joined to n, in either direction, by a link of type flow,
\* influence or waste, or of type problem in the 'negative' view
FocusNeighbours(n) ==
  { m \in NodeIx :
      \E l \in LinkIx :
        /\ {links[l].source, links[l].target} = {n, m}
        /\ \/ links[l].type \in {"flow", "influence", "waste"}
           \/ links[l].type = "problem" /\ currentView = "negative" }

\* what a focus on the selected node is to show, the category filters
\* applied
FocusShown ==
  { m \in {currentlySelectedNodeData}
            \cup FocusNeighbours(currentlySelectedNodeData) : ~hidden[m] }

\* C19: when a node n is clicked into focus, the nodes shown once the
\* transitions of the click have run are n and exactly its neighbours by
\* flow, influence and waste links (and problem links in the 'negative'
\* view); every other node is hidden
C19_FocusNeighbourSet ==
  [][FocusClick => NodesAfter' = FocusShown']_vars

\* the links that make a neighbour of the focused node
FocusLinks ==
  { l \in LinkIx :
      /\ currentlySelectedNodeData \in {links[l].source, links[l].target}
      /\ \/ links[l].type \in {"flow", "influence", "waste"}
         \/ links[l].type = "problem" /\ currentView = "negative" }

\* one connector for every pair of nodes and type among these links, keyed
\* by the sorted pair of ids and the type
FocusConnectors ==
  { [ends |-> {links[l].source, links[l].target},
     key |-> [ends |-> {nodes[links[l].source].id, nodes[links[l].target].id},
              type |-> links[l].type]] : l \in FocusLinks }

\* C20: a focus click renders exactly one connector per pair of nodes and
\* link type, whatever the directions of the links of the pair, keyed by
\* the sorted pair of end ids and the type, and joining the two nodes
C20_FocusDeduplication ==
  [][FocusClick =>
       /\ { [ends |-> {c.from, c.to}, key |-> c.key] : c \in mindMap' }
            = FocusConnectors'
       /\ Cardinality(mindMap') = Cardinality(FocusConnectors')]_vars

\* C21: the 'continue journey' button exists only mid-disclosure: there is
\* none in Collapsed, there is one while the journey is on and some node
\* is still undisclosed (Stage 1..6), none once every node is disclosed
\* (Full) or the journey has wrapped back to Collapsed, and never more than
\* one
C21_ContinueButtonMidDisclosure ==
  /\ continueButtons <= 1
  /\ Collapsed => continueButtons = 0
  /\ (isJourneyExpanded /\ ~Full) => continueButtons = 1
  /\ Full => continueButtons = 0

\* the categories index.html has a checkbox for
Recognized == SeqRange(HtmlCategories)

\* C22: a node whose group is missing or is none of the recognised
\* categories is rendered in the bucket 'uncategorized' and filtered with
\* it: its data-group is 'uncategorized' and no checkbox exists for another
\* unrecognised group
C22_UnrecognizedGroups ==
  loadStatus = "ready" =>
    /\ \A n \in NodeIx :
         response.data.nodes[n].group \notin Recognized =>
           DataGroup(n) = "uncategorized"
    /\ allCategoryCheckboxes \subseteq Recognized \cup {"uncategorized"}

\* the neighbours of the focused node shown on the left and on the right
FocusSide(left) ==
  { m \in FocusNeighbours(currentlySelectedNodeData)
            \ {currentlySelectedNodeData} :
      (nodes[m].group = "factor") <=> left }

\* the heights of a stack of k slots, 120 apart, centred on cy
StackHeights(k, cy) == { cy - (k - 1) * 60 + i * 120 : i \in 0 .. (k - 1) }

\* the focus layout around the centre of the viewport
FocusLayout ==
  LET n == currentlySelectedNodeData
      cx == svgSize.width \div 2
      cy == svgSize.height \div 2
  IN  /\ x[n] = cx /\ fx[n] = cx /\ y[n] = cy /\ fy[n] = cy
      /\ \A left \in BOOLEAN :
           /\ \A m \in FocusSide(left) :
                /\ fx[m] = x[m] /\ fy[m] = y[m]
                /\ fx[m] = IF left THEN cx - 350 ELSE cx + 350
           /\ { fy[m] : m \in FocusSide(left) }
                = StackHeights(Cardinality(FocusSide(left)), cy)

\* C23: after a node n is clicked into focus, n is pinned at the centre of
\* the viewport, every neighbour is pinned where it is drawn, 350 to the
\* left of the centre if its group is 'factor' and 350 to the right
\* otherwise, and the neighbours of each side are stacked 120 apart,
\* centred vertically on the centre, whatever links surround n
C23_FocusLayout ==
  [][FocusClick => FocusLayout']_vars


\* the sampled link's examples, if present, is a sequence
ExamplesWellFormed(l) == l.examples # "undefined" => l.examples = "array"

\* the payloads the shallow validation is specified to accept
ShallowValid(data) ==
  /\ "null" \notin DOMAIN data
  /\ Len(data.nodes) > 0 /\ Len(data.links) > 0
  /\ data.nodes[1].id # "" /\ data.nodes[1].group # ""
  /\ data.nodes[1].label # ""
  /\ data.links[1].source # "" /\ data.links[1].target # ""
  /\ data.links[1].type # ""
  /\ ExamplesWellFormed(data.links[1])

\* C24: a payload passes validateDataStructure if and only if it is an
\* object with non-empty nodes and links, the first node carries id, group
\* and label, the first link carries source, target and type, and the
\* first link's examples, if present, is a sequence
C24_ShallowValidation ==
  response.fetch \in {"ok", "null"} =>
    (validateDataStructure(Body(response)) <=> ShallowValid(Body(response)))

\* a resize step: the svg takes another size
ResizeStep == svgSize' # svgSize

\* the positions are those of the initial layout for the size of the svg,
\* wherever that layout fixes a coordinate
AtInitialLayout ==
  LET at == InitialLayout(svgSize.width, svgSize.height)
  IN  \A n \in NodeIx :
        /\ at[n].x # Adrift => x[n] = at[n].x
        /\ at[n].y # Adrift => y[n] = at[n].y

\* C25: a resize while no node is focused places the nodes as the initial
\* layout does for the new viewport size, and leaves the visibility of
\* every node and link as it was
C25_ResizeRelayout ==
  [][(ResizeStep /\ currentlySelectedNodeData = Null) =>
       /\ AtInitialLayout'
       /\ UNCHANGED << hidden, nodeOp, nodePE, linkOp, pend >>]_vars

\* the ids the loaded payload carries
DatasetIds == { nodes[n].id : n \in NodeIx }

\* C26: expandedNodes holds only ids of nodes of the loaded payload, so it
\* never has more members than there are nodes, and it has fewer members
\* than there are nodes exactly when some node of the payload is not in it
C26_ExpandedNodesAreDatasetNodes ==
  loadStatus = "ready" =>
    /\ expandedNodes \subseteq DatasetIds
    /\ Cardinality(expandedNodes) <= Len(nodes)
    /\ (Cardinality(expandedNodes) < Len(nodes)) <=>
         (\E n \in NodeIx : nodes[n].id \notin expandedNodes)

\* the nodes that are pinned
Pinned == { m \in NodeIx : fx[m] # Null /\ fy[m] # Null }

\* C27: once a click has focused node n, the pinned nodes are exactly n
\* and the neighbours shown for n; no node pinned for an earlier focus
\* stays pinned
C27_PinsAreFocusAndNeighbours ==
  [][FocusClick =>
       (Pinned = {currentlySelectedNodeData}
                   \cup FocusNeighbours(currentlySelectedNodeData))']_vars

\* the left and right lists nodeClicked builds for the node it focuses
FocusLists(d) ==
  LET es == Entries(connectedLinks(d), d)
  IN  leftNodes(es) \o rightNodes(es)

\* the state a click has just put into focus on a node: no other event
\* has followed the click
JustFocused == currentlySelectedNodeData # Null /\ lastEvent = "node"

\* C28: in the focus layout each shown neighbour has exactly one slot of
\* the left and right stacks, and every slot belongs to a neighbour
C28_OneSlotPerNeighbour ==
  JustFocused =>
    LET d == currentlySelectedNodeData
        slots == FocusLists(d)
    IN  /\ \A m \in FocusNeighbours(d) \ {d} :
             Cardinality({ i \in 1 .. Len(slots) : slots[i].node = m }) = 1
        /\ \A i \in 1 .. Len(slots) :
             slots[i].node \in FocusNeighbours(d) \ {d}

\* a press on a view-mode button
ViewStep == events' # events /\ lastEvent' = "view"

\* the dimming of the view currentView, lines 1745-1758
ViewDimming ==
  /\ nodeOp = [n \in NodeIx |->
                 IF currentView = "regen" /\ ~nodes[n].isRegenModified
                 THEN 300 ELSE 1000]
  /\ linkOp = [l \in LinkIx |->
                 IF currentView = "regen" /\ ~links[l].isRegenHighlight
                 THEN 300 ELSE 1000]

\* C29: in every state after a successful load, whichever node is
\* selected, a press on the 'regen' or the 'default' view button runs to
\* its end: the view is recorded and the dimming of that view is applied
C29_RegenStylingNeverFails ==
  [][(ViewStep /\ currentView' \in {"regen", "default"}) => ViewDimming']_vars

\* C30: whenever the force simulation has no tick left to run, every
\* pinned node is where its pin is: x = fx and y = fy
C30_PinnedNodesAtPins ==
  (loadStatus = "ready" /\ ~TickPending) =>
    \A n \in Pinned : x[n] = fx[n] /\ y[n] = fy[n]

====
